---------------------------- MODULE Spec2Model ----------------------------
(***************************************************************************)
(* Model of the face/eye alignment code of the wizard-of-oz project:       *)
(*                                                                         *)
(*   api/align-photo-v4.py    align_face (rotate, scale, crop) and the     *)
(*                            HTTP handler do_POST / do_GET                *)
(*   align_photo_opencv.py    align_face (estimateAffinePartial2D +        *)
(*                            warpAffine) and its command line main        *)
(*                                                                         *)
(* Arithmetic.  The Python code computes in float64.  The model computes   *)
(* in exact rational arithmetic (records [n, d], d = 0 standing for the    *)
(* float inf that numpy yields for x / 0.0).  Eye coordinates are drawn    *)
(* from integer points whose distance is an integer, so that the sine and  *)
(* the cosine of the rotation angle are rational and no rounding is        *)
(* hidden.  int() is truncation toward zero, as in Python.                 *)
(*                                                                         *)
(* Rasters.  An image is modelled by its size and by the colour class of   *)
(* a fixed set of probe pixels of the 1080 x 1080 canvas: "white"          *)
(* (255,255,255), "src" (resampled from the decoded input raster), and     *)
(* the overlay colours "green", "blue", "yellow" drawn by the api.         *)
(***************************************************************************)
EXTENDS Integers, Sequences, FiniteSets, TLC

(***************************************************************************)
(* Program constants                                                       *)
(***************************************************************************)
TARGET_LEFT_EYE == <<720, 432>>
TARGET_RIGHT_EYE == <<360, 432>>
TARGET_INTER_EYE_DISTANCE == 360
OUTPUT_SIZE == <<1080, 1080>>

(***************************************************************************)
(* Bounds of the model                                                     *)
(***************************************************************************)
\* landmarks may have been detected on a copy of the image reduced by an
\* integer factor 1..MaxDownscale (imageWidth = actual_width / factor)
MaxDownscale == 2
\* the eye detector of the verification step returns 0..MaxDetected regions
MaxDetected == 3

(***************************************************************************)
(* Integer helpers                                                         *)
(***************************************************************************)
Abs(x) == IF x < 0 THEN -x ELSE x

Max(a, b) == IF a >= b THEN a ELSE b

Min(a, b) == IF a <= b THEN a ELSE b

RECURSIVE Gcd(_, _)
Gcd(a, b) == IF b = 0 THEN a ELSE Gcd(b, a % b)

RECURSIVE SqrtSearch(_, _, _)
\* the largest r in lo..hi with r*r <= n (lo*lo <= n assumed)
SqrtSearch(n, lo, hi) ==
  IF lo >= hi THEN lo
  ELSE LET mid == (lo + hi + 1) \div 2
       IN  IF mid * mid <= n THEN SqrtSearch(n, mid, hi)
                             ELSE SqrtSearch(n, lo, mid - 1)

\* floor of the square root of n >= 0
ISqrt(n) == SqrtSearch(n, 0, Min(n, 46340))

\* int(x) for the quotient x = n / d, d > 0: truncation toward zero
TruncDiv(n, d) == IF n >= 0 THEN n \div d ELSE -((-n) \div d)

(***************************************************************************)
(* Rational numbers [n |-> numerator, d |-> denominator], kept in lowest   *)
(* terms with d >= 0; d = 0 is the float inf                               *)
(***************************************************************************)
Frac(n, d) ==
  IF d = 0 THEN [n |-> IF n < 0 THEN -1 ELSE 1, d |-> 0]
  ELSE LET g == Gcd(Abs(n), Abs(d))
           sg == IF d < 0 THEN -1 ELSE 1
       IN  [n |-> sg * (n \div g), d |-> Abs(d) \div g]

FInt(k) == [n |-> k, d |-> 1]

IsInf(x) == x.d = 0

FAdd(x, y) ==
  LET g == Gcd(x.d, y.d)
  IN  Frac(x.n * (y.d \div g) + y.n * (x.d \div g), (x.d \div g) * y.d)

FNeg(x) == [n |-> -x.n, d |-> x.d]

FSub(x, y) == FAdd(x, FNeg(y))

FMul(x, y) ==
  LET g1 == Gcd(Abs(x.n), y.d)
      g2 == Gcd(Abs(y.n), x.d)
  IN  Frac((x.n \div g1) * (y.n \div g2), (x.d \div g2) * (y.d \div g1))

\* x / y in float64: a zero divisor gives inf (numpy warns, it does not raise)
FDiv(x, y) ==
  IF y.n = 0 THEN Frac(1, 0)
  ELSE FMul(x, Frac(y.d * (IF y.n < 0 THEN -1 ELSE 1), Abs(y.n)))

FAbs(x) == [n |-> Abs(x.n), d |-> x.d]

FLeq(x, y) == FSub(x, y).n <= 0

FLess(x, y) == FSub(x, y).n < 0

\* int(x): truncation toward zero
FTrunc(x) == TruncDiv(x.n, x.d)


(***************************************************************************)
(* Inputs of the model                                                     *)
(***************************************************************************)
\* sizes (width, height) of decodable images: smaller than, equal to and
\* larger than the output canvas
ImageSizes == {<<100, 100>>, <<1080, 1080>>, <<1600, 1200>>}

\* image_bytes: bytes that decode to a raster of some size, or do not decode
Images ==
  {[ok |-> TRUE, width |-> sz[1], height |-> sz[2]] : sz \in ImageSizes}
    \cup {[ok |-> FALSE, width |-> 0, height |-> 0]}

\* eye positions as the detector reports them
EyePoints ==
  {<<50, 50>>, <<100, 100>>, <<200, 100>>, <<196, 128>>, <<100, 200>>,
   <<720, 432>>, <<360, 432>>, <<760, 462>>}

SqDist(p, q) == (p[1] - q[1]) * (p[1] - q[1]) + (p[2] - q[2]) * (p[2] - q[2])

IsSquare(n) == ISqrt(n) * ISqrt(n) = n

\* pairs (left eye, right eye) at an integer distance, distance 0 included
EyePairs == {pr \in EyePoints \X EyePoints : IsSquare(SqDist(pr[1], pr[2]))}

\* regions (x, y, w, h) the eye detector may report in the output image
DetectRects ==
  {<<345, 417, 30, 30>>, <<700, 412, 40, 40>>, <<100, 100, 30, 30>>,
   <<900, 600, 31, 31>>}

\* the pixels of the canvas whose colour the model follows
Probes ==
  {<<0, 0>>, <<1079, 0>>, <<0, 1079>>, <<1079, 1079>>, <<540, 540>>,
   <<115, 115>>, <<915, 615>>, <<360, 432>>, <<720, 432>>, <<1079, 432>>,
   <<360, 1000>>, <<300, 300>>}

(***************************************************************************)
(* align_face of api/align-photo-v4.py: the geometry                       *)
(***************************************************************************)
\* STEP 1, lines 64-67, as the cosine and sine of angle_deg.
\* angle_rad = arctan2(delta_x, delta_y) is the angle phi with
\* delta_x = r sin(phi), delta_y = r cos(phi); angle_deg = |phi| - 90, so
\* cos(angle_deg) = sin|phi| = |delta_x| / r and
\* sin(angle_deg) = -cos|phi| = -delta_y / r.
\* arctan2(0, 0) = 0 gives angle_deg = -90.
RotationAngle(lx, ly, rx, ry) ==
  LET delta_x == lx - rx
      delta_y == ly - ry
      r == ISqrt(delta_x * delta_x + delta_y * delta_y)
  IN  IF r = 0 THEN [cos |-> FInt(0), sin |-> FInt(-1)]
      ELSE [cos |-> Frac(Abs(delta_x), r), sin |-> Frac(-delta_y, r)]

\* max_dist = int(np.hypot(width, height))
MaxDist(width, height) == ISqrt(width * width + height * height)

\* cv2.getRotationMatrix2D((cx, cy), angle, 1.0):
\*   [ a   b   (1-a)*cx - b*cy ]
\*   [ -b  a   b*cx + (1-a)*cy ]      a = cos(angle), b = sin(angle)
GetRotationMatrix2D(cx, cy, angle) ==
  LET a == angle.cos
      b == angle.sin
      one_a == FSub(FInt(1), a)
  IN  [m00 |-> a, m01 |-> b,
       m02 |-> FSub(FMul(one_a, FInt(cx)), FMul(b, FInt(cy))),
       m10 |-> FNeg(b), m11 |-> a,
       m12 |-> FAdd(FMul(b, FInt(cx)), FMul(one_a, FInt(cy)))]

\* lines 97-98: a point through the rotation matrix
RotateX(m, x, y) == FAdd(FAdd(FMul(m.m00, x), FMul(m.m01, y)), m.m02)

RotateY(m, x, y) == FAdd(FAdd(FMul(m.m10, x), FMul(m.m11, y)), m.m12)

\* STEP 2, lines 105-106
CurrentEyeDistance(rx_new, lx) == FAbs(FSub(rx_new, FInt(lx)))

ScaleFactor(current_eye_distance) ==
  FDiv(FInt(TARGET_INTER_EYE_DISTANCE), current_eye_distance)

\* lines 112-113: int(rotated.shape[k] * scale_factor), scale_factor finite
ScaledSize(size, scale_factor) == FTrunc(FMul(FInt(size), scale_factor))

\* STEP 3, lines 129-135
CropLeft(lx_scaled, rx_scaled) ==
  FTrunc(FSub(FMul(FAdd(lx_scaled, rx_scaled), Frac(1, 2)),
              Frac(OUTPUT_SIZE[1], 2)))

\* mutant of CropTop: the crop centred vertically on the eyes
CropTopCentred(ly_scaled, ry_scaled) ==
  FTrunc(FSub(FMul(FAdd(ly_scaled, ry_scaled), Frac(1, 2)),
              Frac(OUTPUT_SIZE[2], 2)))

CropTop(ly_scaled, ry_scaled) ==
  FTrunc(FSub(FMul(FAdd(ly_scaled, ry_scaled), Frac(1, 2)),
              FInt(TARGET_LEFT_EYE[2])))

\* lines 146-154: the source rectangle in the scaled image and the
\* destination rectangle in the canvas, along one axis
CopySpan(crop_lo, scaled_len, out_len) ==
  LET src_1 == Max(0, crop_lo)
      src_2 == Min(scaled_len, crop_lo + out_len)
      dst_1 == src_1 - crop_lo
      dst_2 == dst_1 + (src_2 - src_1)
  IN  [src_1 |-> src_1, src_2 |-> src_2, dst_1 |-> dst_1, dst_2 |-> dst_2]

\* a[start:stop] on an axis of length n, as numpy resolves it: a negative
\* index counts from the end, both ends are clipped to 0..n
SliceIndex(i, n) == IF i < 0 THEN Max(i + n, 0) ELSE Min(i, n)

SliceLo(start, n) == SliceIndex(start, n)

SliceHi(start, stop, n) == Max(SliceIndex(start, n), SliceIndex(stop, n))

SliceLen(start, stop, n) == SliceHi(start, stop, n) - SliceLo(start, n)

\* line 156: the assignment is accepted when each axis of the value has the
\* length of the target's axis, or length 1 (broadcast)
AxisFits(span, scaled_len, out_len) ==
  LET sl == SliceLen(span.src_1, span.src_2, scaled_len)
      dl == SliceLen(span.dst_1, span.dst_2, out_len)
  IN  sl = dl \/ sl = 1

\* the index in the scaled image copied to index i of the canvas axis, or -1
CopiedFrom(span, scaled_len, out_len, i) ==
  LET slo == SliceLo(span.src_1, scaled_len)
      sl == SliceLen(span.src_1, span.src_2, scaled_len)
      dlo == SliceLo(span.dst_1, out_len)
      dhi == SliceHi(span.dst_1, span.dst_2, out_len)
  IN  IF dlo <= i /\ i < dhi
      THEN (IF sl = 1 THEN slo ELSE slo + (i - dlo))
      ELSE -1

(***************************************************************************)
(* State                                                                   *)
(***************************************************************************)
VARIABLES
  pc,            \* position of the running invocation
  exc,           \* the exception in flight or handled: its type and where raised
  landmarks,     \* do_POST: data['landmarks']
  image_bytes,   \* the downloaded (api) or read (command line) image
  left_eye,      \* align_face argument
  right_eye,     \* align_face argument
  af,            \* align_face of the api: its local variables
  aligned,       \* align_face of the api: the output canvas (probe colours)
  detected_eyes, \* align_face of the api: regions found by the eye detector
  aligned_bytes, \* what align_face of the api returned
  storage,       \* objects uploaded to storage by this request
  db_aligned_url,\* whether the photo record's aligned_url was updated
  responses,     \* status lines sent to the client, in order
  M,             \* command line: matrix of estimateAffinePartial2D
  cli            \* command line: exit code, printed result, written file

vars == <<pc, exc, landmarks, image_bytes, left_eye, right_eye, af, aligned,
          detected_eyes, aligned_bytes, storage, db_aligned_url, responses,
          M, cli>>

af_vars == <<af, aligned, detected_eyes, aligned_bytes>>

env_vars == <<storage, db_aligned_url, responses>>

cli_vars == <<M, cli>>

NoException == [type |-> "none", at |-> "none"]

NoLandmarks ==
  [leftEye |-> <<0, 0>>, rightEye |-> <<0, 0>>, imageWidth |-> 0]

NoImage == [ok |-> FALSE, width |-> 0, height |-> 0]

NoSpan == [src_1 |-> 0, src_2 |-> 0, dst_1 |-> 0, dst_2 |-> 0]

NoMatrix ==
  [m00 |-> FInt(0), m01 |-> FInt(0), m02 |-> FInt(0),
   m10 |-> FInt(0), m11 |-> FInt(0), m12 |-> FInt(0)]

\* the local variables of align_face before it runs
NoFrame ==
  [width |-> 0, height |-> 0, lx |-> 0, ly |-> 0, rx |-> 0, ry |-> 0,
   angle |-> [cos |-> FInt(1), sin |-> FInt(0)], max_dist |-> 0,
   rotation_matrix |-> NoMatrix, rx_new |-> FInt(0), ry_new |-> FInt(0),
   current_eye_distance |-> FInt(0), scale_factor |-> FInt(0),
   new_width |-> 0, new_height |-> 0,
   lx_scaled |-> FInt(0), ly_scaled |-> FInt(0),
   rx_scaled |-> FInt(0), ry_scaled |-> FInt(0),
   crop_left |-> 0, crop_top |-> 0, span_x |-> NoSpan, span_y |-> NoSpan]

NoRaster == [shape |-> <<0, 0>>, px |-> [p \in Probes |-> "white"]]

NoBytes == [kind |-> "unset", image |-> NoRaster]

NoCli == [exit |-> -1, success |-> FALSE, written |-> NoRaster, wrote |-> FALSE]

Init ==
  /\ pc = "start"
  /\ exc = NoException
  /\ landmarks = NoLandmarks
  /\ image_bytes = NoImage
  /\ left_eye = <<0, 0>>
  /\ right_eye = <<0, 0>>
  /\ af = NoFrame
  /\ aligned = NoRaster
  /\ detected_eyes = {}
  /\ aligned_bytes = NoBytes
  /\ storage = <<>>
  /\ db_aligned_url = FALSE
  /\ responses = <<>>
  /\ M = NoMatrix
  /\ cli = NoCli

\* an exception leaves the running code
Raise(type) ==
  /\ exc' = [type |-> type, at |-> pc]
  /\ pc' = "raised"

\* self.send_error(code, message) / self.send_response(code)
Send(code, message) ==
  responses' = Append(responses, [code |-> code, message |-> message])

(***************************************************************************)
(* handler.do_POST, up to the call of align_face                           *)
(***************************************************************************)
\* the widths the landmark detector may have worked at
DetectionWidths ==
  {z[1][1] \div z[2] :
     z \in {y \in ImageSizes \X (1..MaxDownscale) : y[1][1] % y[2] = 0}}
    \cup {0}

\* data.get('landmarks') of a well-formed request
LandmarkInputs ==
  {[leftEye |-> pr[1], rightEye |-> pr[2], imageWidth |-> w] :
     pr \in EyePairs, w \in DetectionWidths}

\* lines 252-262 with a body that does not parse (or no Content-Length)
ParseBodyRaises ==
  /\ pc = "start"
  /\ Raise("ValueError")
  /\ UNCHANGED <<landmarks, image_bytes, left_eye, right_eye>>
  /\ UNCHANGED <<af_vars, env_vars, cli_vars>>

\* lines 257-262: photoId or landmarks missing
ParseBodyMissing ==
  /\ pc = "start"
  /\ Send(400, "Missing photoId or landmarks")
  /\ pc' = "done"
  /\ UNCHANGED <<exc, landmarks, image_bytes, left_eye, right_eye>>
  /\ UNCHANGED <<af_vars, storage, db_aligned_url, cli_vars>>

ParseBodyOk ==
  /\ pc = "start"
  /\ \E l \in LandmarkInputs : landmarks' = l
  /\ pc' = "fetch"
  /\ UNCHANGED <<exc, image_bytes, left_eye, right_eye>>
  /\ UNCHANGED <<af_vars, env_vars, cli_vars>>

\* lines 266-277: the request to the database fails
FetchPhotoRaises ==
  /\ pc = "fetch"
  /\ Raise("URLError")
  /\ UNCHANGED <<landmarks, image_bytes, left_eye, right_eye>>
  /\ UNCHANGED <<af_vars, env_vars, cli_vars>>

\* lines 279-281: no such photo
FetchPhotoNotFound ==
  /\ pc = "fetch"
  /\ Send(404, "Photo not found")
  /\ pc' = "done"
  /\ UNCHANGED <<exc, landmarks, image_bytes, left_eye, right_eye>>
  /\ UNCHANGED <<af_vars, storage, db_aligned_url, cli_vars>>

FetchPhotoOk ==
  /\ pc = "fetch"
  /\ pc' = "download"
  /\ UNCHANGED <<exc, landmarks, image_bytes, left_eye, right_eye>>
  /\ UNCHANGED <<af_vars, env_vars, cli_vars>>

\* lines 286-289: the download fails
DownloadRaises ==
  /\ pc = "download"
  /\ Raise("URLError")
  /\ UNCHANGED <<landmarks, image_bytes, left_eye, right_eye>>
  /\ UNCHANGED <<af_vars, env_vars, cli_vars>>

\* the stored photo is the one the landmarks were detected on, at full size
\* or reduced by an integer factor of at most MaxDownscale
MatchesDetection(img, imageWidth) ==
  IF ~img.ok \/ imageWidth = 0 THEN TRUE
  ELSE /\ img.width % imageWidth = 0
       /\ img.width \div imageWidth <= MaxDownscale

DownloadOk ==
  /\ pc = "download"
  /\ \E img \in Images :
       /\ MatchesDetection(img, landmarks.imageWidth)
       /\ image_bytes' = img
  /\ pc' = "rescale"
  /\ UNCHANGED <<exc, landmarks, left_eye, right_eye>>
  /\ UNCHANGED <<af_vars, env_vars, cli_vars>>

\* lines 303-310: a landmark coordinate times actual_width / imageWidth
\* (the quotient is an integer for the inputs of the model)
ScaleCoordinate(v, actual_width, imageWidth) ==
  FTrunc(FMul(FInt(v), FDiv(FInt(actual_width), FInt(imageWidth))))

\* lines 291-317: decode for the dimensions, rescale the landmarks, call
\* align_face.  img.shape of an undecodable image raises AttributeError
\* (img is None); imageWidth = 0 raises ZeroDivisionError.
Rescale ==
  /\ pc = "rescale"
  /\ IF ~image_bytes.ok
     THEN /\ Raise("AttributeError")
          /\ UNCHANGED <<left_eye, right_eye>>
     ELSE IF landmarks.imageWidth = 0
     THEN /\ Raise("ZeroDivisionError")
          /\ UNCHANGED <<left_eye, right_eye>>
     ELSE /\ left_eye' =
               <<ScaleCoordinate(landmarks.leftEye[1], image_bytes.width,
                                 landmarks.imageWidth),
                 ScaleCoordinate(landmarks.leftEye[2], image_bytes.width,
                                 landmarks.imageWidth)>>
          /\ right_eye' =
               <<ScaleCoordinate(landmarks.rightEye[1], image_bytes.width,
                                 landmarks.imageWidth),
                 ScaleCoordinate(landmarks.rightEye[2], image_bytes.width,
                                 landmarks.imageWidth)>>
          /\ pc' = "af_decode"
          /\ UNCHANGED exc
  /\ UNCHANGED <<landmarks, image_bytes>>
  /\ UNCHANGED <<af_vars, env_vars, cli_vars>>

(***************************************************************************)
(* align_face of api/align-photo-v4.py: rasters                            *)
(***************************************************************************)
\* The position in the decoded input raster that pixel (sx, sy) of the
\* scaled image shows: back through the scaling (the code's own bookkeeping
\* of lines 117-120: a coordinate is multiplied by scale_factor), back
\* through the rotation about (lx, ly) and off the border of max_dist.
SourcePosition(f, sx, sy) ==
  LET u == FDiv(FInt(sx), f.scale_factor)
      v == FDiv(FInt(sy), f.scale_factor)
      du == FSub(u, FInt(f.lx))
      dv == FSub(v, FInt(f.ly))
      a == f.rotation_matrix.m00
      b == f.rotation_matrix.m01
  IN  [x |-> FSub(FAdd(FInt(f.lx - f.max_dist), FMul(a, du)), FMul(b, dv)),
       y |-> FAdd(FAdd(FInt(f.ly - f.max_dist), FMul(b, du)), FMul(a, dv))]

\* whether a position lies in the raster of width x height pixels
InRaster(pos, width, height) ==
  /\ FLeq(Frac(-1, 2), pos.x) /\ FLess(pos.x, Frac(2 * width - 1, 2))
  /\ FLeq(Frac(-1, 2), pos.y) /\ FLess(pos.y, Frac(2 * height - 1, 2))

\* the colour class of pixel (sx, sy) of the scaled image: the border and
\* borderValue of lines 74-93 are white
ScaledPixel(f, sx, sy) ==
  IF InRaster(SourcePosition(f, sx, sy), f.width, f.height)
  THEN "src" ELSE "white"

\* mutant of NewCanvas: a canvas of the size of the input image
NewCanvasOfInputSize ==
  [shape |-> <<image_bytes.height, image_bytes.width>>,
   px |-> [p \in Probes |-> "white"]]

\* line 144: aligned = np.full((OUTPUT_SIZE[1], OUTPUT_SIZE[0], 3), 255)
NewCanvas ==
  [shape |-> <<OUTPUT_SIZE[2], OUTPUT_SIZE[1]>>,
   px |-> [p \in Probes |-> "white"]]

\* line 156: aligned[dst_y1:dst_y2, dst_x1:dst_x2] = scaled[src_y1:src_y2, ...]
CopyRegion(canvas, f) ==
  [shape |-> canvas.shape,
   px |-> [p \in Probes |->
             LET sx == CopiedFrom(f.span_x, f.new_width, canvas.shape[2], p[1])
                 sy == CopiedFrom(f.span_y, f.new_height, canvas.shape[1], p[2])
             IN  IF sx = -1 \/ sy = -1 THEN canvas.px[p]
                 ELSE ScaledPixel(f, sx, sy)]]

\* lines 172-182: the centres of the two leftmost detected regions
RectCenter(e) == <<e[1] + e[3] \div 2, e[2] + e[4] \div 2>>

Leftmost(rects) == CHOOSE e \in rects : \A o \in rects : e[1] <= o[1]

ActualEyePositions(detected) ==
  IF Cardinality(detected) >= 2
  THEN LET first == Leftmost(detected)
           second == Leftmost(detected \ {first})
       IN  <<RectCenter(first), RectCenter(second)>>
  ELSE <<>>

\* cv2.circle(img, center, radius, color, -1): a filled disc
InCircle(p, center, radius) == SqDist(p, center) <= radius * radius

\* lines 217-234: the debug drawing, last drawn on top
DebugImage(canvas, actual_eye_positions) ==
  [shape |-> canvas.shape,
   px |-> [p \in Probes |->
     IF \/ p[1] = TARGET_LEFT_EYE[1] /\ p[2] \in 0..OUTPUT_SIZE[2]
        \/ p[1] = TARGET_RIGHT_EYE[1] /\ p[2] \in 0..OUTPUT_SIZE[2]
        \/ p[2] = TARGET_LEFT_EYE[2] /\ p[1] \in 0..OUTPUT_SIZE[1]
     THEN "yellow"
     ELSE IF InCircle(p, TARGET_LEFT_EYE, 8) \/ InCircle(p, TARGET_RIGHT_EYE, 8)
     THEN "blue"
     ELSE IF /\ Len(actual_eye_positions) = 2
             /\ \/ InCircle(p, actual_eye_positions[1], 6)
                \/ InCircle(p, actual_eye_positions[2], 6)
     THEN "green"
     ELSE canvas.px[p]]]

(***************************************************************************)
(* align_face of api/align-photo-v4.py: the steps                          *)
(***************************************************************************)
\* lines 41-50
AF_Decode ==
  /\ pc = "af_decode"
  /\ IF ~image_bytes.ok
     THEN /\ aligned_bytes' = [kind |-> "None", image |-> NoRaster]
          /\ pc' = "check"
          /\ UNCHANGED af
     ELSE /\ af' = [NoFrame EXCEPT !.width = image_bytes.width,
                                   !.height = image_bytes.height,
                                   !.lx = left_eye[1], !.ly = left_eye[2],
                                   !.rx = right_eye[1], !.ry = right_eye[2]]
          /\ pc' = "af_step1"
          /\ UNCHANGED aligned_bytes
  /\ UNCHANGED <<exc, landmarks, image_bytes, left_eye, right_eye>>
  /\ UNCHANGED <<aligned, detected_eyes, env_vars, cli_vars>>

\* STEP 1, lines 62-98
Step1(f) ==
  LET angle == RotationAngle(f.lx, f.ly, f.rx, f.ry)
      max_dist == MaxDist(f.width, f.height)
      lx == f.lx + max_dist
      ly == f.ly + max_dist
      rx == f.rx + max_dist
      ry == f.ry + max_dist
      rotation_matrix == GetRotationMatrix2D(lx, ly, angle)
  IN  [f EXCEPT !.angle = angle, !.max_dist = max_dist,
                !.lx = lx, !.ly = ly, !.rx = rx, !.ry = ry,
                !.rotation_matrix = rotation_matrix,
                !.rx_new = RotateX(rotation_matrix, FInt(rx), FInt(ry)),
                !.ry_new = RotateY(rotation_matrix, FInt(rx), FInt(ry))]

AF_Rotate ==
  /\ pc = "af_step1"
  /\ af' = Step1(af)
  /\ pc' = "af_step2"
  /\ UNCHANGED <<exc, landmarks, image_bytes, left_eye, right_eye>>
  /\ UNCHANGED <<aligned, detected_eyes, aligned_bytes, env_vars, cli_vars>>

\* STEP 2, lines 104-120, for a finite scale_factor
Step2(f, scale_factor) ==
  [f EXCEPT !.scale_factor = scale_factor,
            !.new_width = ScaledSize(f.width + 2 * f.max_dist, scale_factor),
            !.new_height = ScaledSize(f.height + 2 * f.max_dist, scale_factor),
            !.lx_scaled = FMul(FInt(f.lx), scale_factor),
            !.ly_scaled = FMul(FInt(f.ly), scale_factor),
            !.rx_scaled = FMul(f.rx_new, scale_factor),
            !.ry_scaled = FMul(f.ry_new, scale_factor)]

\* int() of an infinite float raises OverflowError (line 112); cv2.resize to
\* an empty size raises cv2.error (line 114)
AF_Scale ==
  /\ pc = "af_step2"
  /\ LET current_eye_distance == CurrentEyeDistance(af.rx_new, af.lx)
         scale_factor == ScaleFactor(current_eye_distance)
         f == [af EXCEPT !.current_eye_distance = current_eye_distance]
     IN  IF IsInf(scale_factor)
         THEN /\ af' = [f EXCEPT !.scale_factor = scale_factor]
              /\ Raise("OverflowError")
         ELSE /\ af' = Step2(f, scale_factor)
              /\ IF af'.new_width <= 0 \/ af'.new_height <= 0
                 THEN Raise("cv2.error")
                 ELSE pc' = "af_step3" /\ UNCHANGED exc
  /\ UNCHANGED <<landmarks, image_bytes, left_eye, right_eye>>
  /\ UNCHANGED <<aligned, detected_eyes, aligned_bytes, env_vars, cli_vars>>

\* STEP 3, lines 128-154
Step3(f) ==
  LET crop_left == CropLeft(f.lx_scaled, f.rx_scaled)
      crop_top == CropTop(f.ly_scaled, f.ry_scaled)
  IN  [f EXCEPT !.crop_left = crop_left, !.crop_top = crop_top,
                !.span_x = CopySpan(crop_left, f.new_width, OUTPUT_SIZE[1]),
                !.span_y = CopySpan(crop_top, f.new_height, OUTPUT_SIZE[2])]

\* lines 128-159; a copy whose shapes do not fit raises ValueError (line 156)
AF_Crop ==
  /\ pc = "af_step3"
  /\ af' = Step3(af)
  /\ IF /\ AxisFits(af'.span_x, af'.new_width, NewCanvas.shape[2])
        /\ AxisFits(af'.span_y, af'.new_height, NewCanvas.shape[1])
     THEN /\ aligned' = CopyRegion(NewCanvas, af')
          /\ pc' = "af_verify"
          /\ UNCHANGED exc
     ELSE /\ aligned' = NewCanvas
          /\ Raise("ValueError")
  /\ UNCHANGED <<landmarks, image_bytes, left_eye, right_eye>>
  /\ UNCHANGED <<detected_eyes, aligned_bytes, env_vars, cli_vars>>

\* lines 161-215: the eye detector is run on the output; what it finds is
\* not determined by the model
AF_Verify ==
  /\ pc = "af_verify"
  /\ \E found \in SUBSET DetectRects :
       /\ Cardinality(found) <= MaxDetected
       /\ detected_eyes' = found
  /\ pc' = "af_encode"
  /\ UNCHANGED <<exc, landmarks, image_bytes, left_eye, right_eye>>
  /\ UNCHANGED <<af, aligned, aligned_bytes, env_vars, cli_vars>>

\* lines 217-246: draw on a copy, encode it as JPEG, return the bytes
AF_Encode ==
  /\ pc = "af_encode"
  /\ aligned_bytes' =
       [kind |-> "jpeg",
        image |-> DebugImage(aligned, ActualEyePositions(detected_eyes))]
  /\ pc' = "check"
  /\ UNCHANGED <<exc, landmarks, image_bytes, left_eye, right_eye>>
  /\ UNCHANGED <<af, aligned, detected_eyes, env_vars, cli_vars>>

(***************************************************************************)
(* handler.do_POST after align_face, and do_GET                            *)
(***************************************************************************)
\* lines 319-321 on a None from align_face; otherwise on to the upload
CheckAligned ==
  /\ pc = "check"
  /\ IF aligned_bytes.kind = "None"
     THEN /\ Send(500, "Failed to align image")
          /\ pc' = "done"
     ELSE /\ pc' = "upload"
          /\ UNCHANGED responses
  /\ UNCHANGED <<exc, landmarks, image_bytes, left_eye, right_eye>>
  /\ UNCHANGED <<af_vars, storage, db_aligned_url, cli_vars>>

\* mutant of UploadRaises: the failure of the upload is swallowed
UploadRaisesIgnored ==
  /\ pc = "upload"
  /\ pc' = "update"
  /\ UNCHANGED <<exc, landmarks, image_bytes, left_eye, right_eye>>
  /\ UNCHANGED <<af_vars, env_vars, cli_vars>>

\* lines 325-342: the upload request fails, nothing is stored
UploadRaises ==
  /\ pc = "upload"
  /\ Raise("URLError")
  /\ UNCHANGED <<landmarks, image_bytes, left_eye, right_eye>>
  /\ UNCHANGED <<af_vars, env_vars, cli_vars>>

\* line 342: the object is stored but the reply is not JSON
UploadReplyRaises ==
  /\ pc = "upload"
  /\ storage' = Append(storage, aligned_bytes.image)
  /\ Raise("ValueError")
  /\ UNCHANGED <<landmarks, image_bytes, left_eye, right_eye>>
  /\ UNCHANGED <<af_vars, db_aligned_url, responses, cli_vars>>

UploadOk ==
  /\ pc = "upload"
  /\ storage' = Append(storage, aligned_bytes.image)
  /\ pc' = "update"
  /\ UNCHANGED <<exc, landmarks, image_bytes, left_eye, right_eye>>
  /\ UNCHANGED <<af_vars, db_aligned_url, responses, cli_vars>>

\* lines 347-362: the update of the photo record fails
UpdateRaises ==
  /\ pc = "update"
  /\ Raise("URLError")
  /\ UNCHANGED <<landmarks, image_bytes, left_eye, right_eye>>
  /\ UNCHANGED <<af_vars, env_vars, cli_vars>>

UpdateOk ==
  /\ pc = "update"
  /\ db_aligned_url' = TRUE
  /\ pc' = "respond"
  /\ UNCHANGED <<exc, landmarks, image_bytes, left_eye, right_eye>>
  /\ UNCHANGED <<af_vars, storage, responses, cli_vars>>

\* lines 369-391
SendSuccess ==
  /\ pc = "respond"
  /\ Send(200, "OK")
  /\ pc' = "done"
  /\ UNCHANGED <<exc, landmarks, image_bytes, left_eye, right_eye>>
  /\ UNCHANGED <<af_vars, storage, db_aligned_url, cli_vars>>

\* lines 393-398: except Exception
Except ==
  /\ pc = "raised"
  /\ Send(500, "Alignment failed")
  /\ pc' = "done"
  /\ UNCHANGED <<exc, landmarks, image_bytes, left_eye, right_eye>>
  /\ UNCHANGED <<af_vars, storage, db_aligned_url, cli_vars>>

\* lines 400-404
do_GET ==
  /\ pc = "start"
  /\ Send(405, "Method not allowed")
  /\ pc' = "done"
  /\ UNCHANGED <<exc, landmarks, image_bytes, left_eye, right_eye>>
  /\ UNCHANGED <<af_vars, storage, db_aligned_url, cli_vars>>

(***************************************************************************)
(* align_photo_opencv.py                                                   *)
(***************************************************************************)
\* cv2.estimateAffinePartial2D on two point pairs: the similarity
\* z -> A z + B of the plane, with A = (dst_r - dst_l) / (src_r - src_l) as
\* complex numbers; no transformation for coincident source points
CanEstimate(src_l, src_r) == src_l # src_r

EstimateAffinePartial2D(src_l, src_r, dst_l, dst_r) ==
  LET sdx == src_r[1] - src_l[1]
      sdy == src_r[2] - src_l[2]
      tdx == dst_r[1] - dst_l[1]
      tdy == dst_r[2] - dst_l[2]
      dd == sdx * sdx + sdy * sdy
      a == Frac(tdx * sdx + tdy * sdy, dd)
      b == Frac(tdy * sdx - tdx * sdy, dd)
      tx == FSub(FInt(dst_l[1]),
                 FSub(FMul(a, FInt(src_l[1])), FMul(b, FInt(src_l[2]))))
      ty == FSub(FInt(dst_l[2]),
                 FAdd(FMul(b, FInt(src_l[1])), FMul(a, FInt(src_l[2]))))
  IN  [m00 |-> a, m01 |-> FNeg(b), m02 |-> tx,
       m10 |-> b, m11 |-> a, m12 |-> ty]

\* a point through a 2x3 matrix
Transform(m, p) ==
  [x |-> FAdd(FAdd(FMul(m.m00, FInt(p[1])), FMul(m.m01, FInt(p[2]))), m.m02),
   y |-> FAdd(FAdd(FMul(m.m10, FInt(p[1])), FMul(m.m11, FInt(p[2]))), m.m12)]

\* the source position of output pixel p under the forward matrix m
InverseTransform(m, p) ==
  LET det == FSub(FMul(m.m00, m.m11), FMul(m.m01, m.m10))
      u == FSub(FInt(p[1]), m.m02)
      v == FSub(FInt(p[2]), m.m12)
  IN  [x |-> FDiv(FSub(FMul(m.m11, u), FMul(m.m01, v)), det),
       y |-> FDiv(FSub(FMul(m.m00, v), FMul(m.m10, u)), det)]

\* lines 60-67: cv2.warpAffine(img, M, OUTPUT_SIZE, ..., borderValue white)
WarpAffine(img, m, dsize) ==
  [shape |-> <<dsize[2], dsize[1]>>,
   px |-> [p \in Probes |->
             IF InRaster(InverseTransform(m, p), img.width, img.height)
             THEN "src" ELSE "white"]]

\* lines 88-107: wrong number of arguments, or coordinates that are no numbers
CliUsage ==
  /\ pc = "start"
  /\ cli' = [NoCli EXCEPT !.exit = 1]
  /\ pc' = "done"
  /\ UNCHANGED <<exc, landmarks, image_bytes, left_eye, right_eye>>
  /\ UNCHANGED <<af_vars, env_vars, M>>

\* lines 96-109: the arguments parse; the file at input_path is any image
CliMain ==
  /\ pc = "start"
  /\ \E img \in Images, pr \in EyePairs :
       /\ image_bytes' = img
       /\ left_eye' = pr[1]
       /\ right_eye' = pr[2]
  /\ pc' = "cli_align"
  /\ UNCHANGED <<exc, landmarks>>
  /\ UNCHANGED <<af_vars, env_vars, cli_vars>>

\* lines 20-86 and 109-113.  An unreadable image is reported in the result;
\* with no matrix, cv2.warpAffine raises and the process ends on the
\* uncaught exception.
CliAlignFace ==
  /\ pc = "cli_align"
  /\ IF ~image_bytes.ok
     THEN /\ cli' = [NoCli EXCEPT !.exit = 1]
          /\ UNCHANGED <<exc, M>>
     ELSE IF ~CanEstimate(left_eye, right_eye)
     THEN /\ cli' = [NoCli EXCEPT !.exit = 1]
          /\ exc' = [type |-> "cv2.error", at |-> pc]
          /\ UNCHANGED M
     ELSE /\ M' = EstimateAffinePartial2D(left_eye, right_eye,
                                          TARGET_LEFT_EYE, TARGET_RIGHT_EYE)
          /\ cli' = [exit |-> 0, success |-> TRUE, wrote |-> TRUE,
                     written |-> WarpAffine(image_bytes, M', OUTPUT_SIZE)]
          /\ UNCHANGED exc
  /\ pc' = "done"
  /\ UNCHANGED <<landmarks, image_bytes, left_eye, right_eye>>
  /\ UNCHANGED <<af_vars, env_vars>>

(***************************************************************************)
(* The next invocation starts from a fresh state: nothing is kept between  *)
(* requests or runs                                                        *)
(***************************************************************************)
NextInvocation ==
  /\ pc = "done"
  /\ pc' = "start"
  /\ exc' = NoException
  /\ landmarks' = NoLandmarks
  /\ image_bytes' = NoImage
  /\ left_eye' = <<0, 0>>
  /\ right_eye' = <<0, 0>>
  /\ af' = NoFrame
  /\ aligned' = NoRaster
  /\ detected_eyes' = {}
  /\ aligned_bytes' = NoBytes
  /\ storage' = <<>>
  /\ db_aligned_url' = FALSE
  /\ responses' = <<>>
  /\ M' = NoMatrix
  /\ cli' = NoCli

Next ==
  \/ ParseBodyRaises \/ ParseBodyMissing \/ ParseBodyOk
  \/ FetchPhotoRaises \/ FetchPhotoNotFound \/ FetchPhotoOk
  \/ DownloadRaises \/ DownloadOk
  \/ Rescale
  \/ AF_Decode \/ AF_Rotate \/ AF_Scale \/ AF_Crop \/ AF_Verify \/ AF_Encode
  \/ CheckAligned
  \/ UploadRaises \/ UploadReplyRaises \/ UploadOk
  \/ UpdateRaises \/ UpdateOk
  \/ SendSuccess
  \/ Except
  \/ do_GET
  \/ CliUsage \/ CliMain \/ CliAlignFace
  \/ NextInvocation

Spec == Init /\ [][Next]_vars

(***************************************************************************)
(* Properties                                                              *)
(***************************************************************************)
\* align_face of the api has returned image bytes
Returned == aligned_bytes.kind = "jpeg"

\* align_face of the api has completed step 3
Cropped == pc \in {"af_verify", "af_encode"} \/ Returned

\* align_face has been entered with a decoded image (api, command line)
ApiEntered == image_bytes.ok /\ af.width > 0

CliEntered == image_bytes.ok /\ pc = "done" /\ cli.exit # -1

\* where the api's rotate, scale and crop put the input eyes in the output
OutLeft ==
  [x |-> FSub(af.lx_scaled, FInt(af.crop_left)),
   y |-> FSub(af.ly_scaled, FInt(af.crop_top))]

OutRight ==
  [x |-> FSub(af.rx_scaled, FInt(af.crop_left)),
   y |-> FSub(af.ry_scaled, FInt(af.crop_top))]

Tolerance == Frac(1, 1000)

Near(pos, target) ==
  /\ FLeq(FAbs(FSub(pos.x, FInt(target[1]))), Tolerance)
  /\ FLeq(FAbs(FSub(pos.y, FInt(target[2]))), Tolerance)

\* C1 (landmark invariant): for every pair of distinct eye points the
\* computed transform maps left_eye to TARGET_LEFT_EYE and right_eye to
\* TARGET_RIGHT_EYE, each within 1e-3 pixels, in both implementations.
\* The api violates it (eyes in the order lx < rx, tilted eyes, the integer
\* crop offsets); the command line tool satisfies it.
C1_LandmarkInvariant ==
  /\ (Cropped /\ left_eye # right_eye) =>
        Near(OutLeft, TARGET_LEFT_EYE) /\ Near(OutRight, TARGET_RIGHT_EYE)
  /\ (CliEntered /\ cli.success) =>
        /\ Near(Transform(M, left_eye), TARGET_LEFT_EYE)
        /\ Near(Transform(M, right_eye), TARGET_RIGHT_EYE)

\* C2 (degenerate input): with left_eye = right_eye, align_face of the api
\* fails with a DegenerateLandmarksError before any scale is computed: the
\* scale computation is never reached, no infinite scale is produced, and
\* the failure, once there, is a DegenerateLandmarksError.
C2_DegenerateRejected ==
  (ApiEntered /\ left_eye = right_eye) =>
     /\ pc # "af_step2"
     /\ ~IsInf(af.scale_factor)
     /\ pc \in {"raised", "done"} => exc.type = "DegenerateLandmarksError"

\* C3 (output shape): every successful call of align_face yields an image
\* of exactly 1080 x 1080 pixels, whatever the input size and eye points.
C3_OutputShape ==
  /\ Returned => aligned_bytes.image.shape = <<1080, 1080>>
  /\ cli.success => cli.wrote /\ cli.written.shape = <<1080, 1080>>

\* C3 witness: the api returned an image for an input larger than the canvas
C3_Witness ==
  /\ Returned
  /\ image_bytes.width > 1080 /\ image_bytes.height > 1080
  /\ left_eye # right_eye

\* the image of the request or run did not decode, and decoding was tried
DecodeFailed ==
  /\ ~image_bytes.ok
  /\ \/ exc = [type |-> "AttributeError", at |-> "rescale"]
     \/ aligned_bytes.kind = "None"
     \/ cli.exit # -1 /\ left_eye # <<0, 0>>

\* how do_POST reports degenerate landmarks (Except after the OverflowError
\* of step 2)
DegenerateResponse == [code |-> 500, message |-> "Alignment failed"]

\* C4 (decode failure): an image that does not decode makes the alignment
\* fail as a decode error: not through a stray exception, with an outcome
\* other than the one reported for degenerate landmarks, and with no
\* aligned image returned, written or uploaded.
C4_DecodeErrorDistinct ==
  (pc = "done" /\ DecodeFailed) =>
     /\ exc.type = "none"
     /\ \A i \in 1..Len(responses) : responses[i] # DegenerateResponse
     /\ ~Returned /\ ~cli.wrote /\ storage = <<>>

\* C5 (scale/rotation scenario): for left_eye = (100, 100) and
\* right_eye = (200, 100) the scale is 3.6 and the rotation 180 degrees, so
\* the left eye ends at x = 720 and the right eye at x = 360.
C5_ScaleRotationScenario ==
  (Cropped /\ left_eye = <<100, 100>> /\ right_eye = <<200, 100>>) =>
     /\ af.scale_factor = Frac(36, 10)
     /\ af.angle = [cos |-> FInt(-1), sin |-> FInt(0)]
     /\ Near(OutLeft, <<720, 432>>)
     /\ Near(OutRight, <<360, 432>>)

\* the position of the input raster that pixel p of the api's canvas shows
CanvasSource(p) == SourcePosition(af, p[1] + af.crop_left, p[2] + af.crop_top)

AlreadyAligned ==
  /\ left_eye = TARGET_LEFT_EYE /\ right_eye = TARGET_RIGHT_EYE
  /\ image_bytes.width = 1080 /\ image_bytes.height = 1080

\* C6 (round trip): with the eyes already at the targets in a 1080 x 1080
\* image the api applies the identity: rotation 0, scale 1, a crop offset
\* equal to the border (net translation 0), and every canvas pixel (x, y)
\* is copied from input position (x, y).
C6_RoundTripIdentity ==
  (Cropped /\ AlreadyAligned) =>
     /\ af.angle = [cos |-> FInt(1), sin |-> FInt(0)]
     /\ af.scale_factor = FInt(1)
     /\ af.crop_left = af.max_dist /\ af.crop_top = af.max_dist
     /\ \A p \in Probes :
          /\ CopiedFrom(af.span_x, af.new_width, 1080, p[1]) = p[1] + af.max_dist
          /\ CopiedFrom(af.span_y, af.new_height, 1080, p[2]) = p[2] + af.max_dist
          /\ CanvasSource(p) = [x |-> FInt(p[1]), y |-> FInt(p[2])]
          /\ aligned.px[p] = "src"

C6_Witness == Cropped /\ AlreadyAligned /\ pc = "af_verify"

\* C7 (verification is read-only): the returned image is the one obtained
\* when the eye detector finds nothing, whatever it found.
C7_VerificationReadOnly ==
  Returned => aligned_bytes.image = DebugImage(aligned, <<>>)

\* C8 (background fill): every pixel of the returned image whose source
\* position lies outside the decoded input raster is white.
C8_BackgroundFill ==
  /\ Returned =>
        \A p \in Probes :
           ~InRaster(CanvasSource(p), af.width, af.height) =>
              aligned_bytes.image.px[p] = "white"
  /\ cli.success =>
        \A p \in Probes :
           ~InRaster(InverseTransform(M, p), image_bytes.width,
                     image_bytes.height) =>
              cli.written.px[p] = "white"

\* C9 (step 1 straightens the eyes): after the rotation about the left eye
\* the left eye is where it was, the right eye has the left eye's y, and
\* |rx_new - lx| is the Euclidean distance of the eyes.
C9_RotationStraightens ==
  (ApiEntered /\ left_eye # right_eye
     /\ pc \in {"af_step2", "af_step3", "af_verify", "af_encode"}) =>
     /\ RotateX(af.rotation_matrix, FInt(af.lx), FInt(af.ly)) = FInt(af.lx)
     /\ RotateY(af.rotation_matrix, FInt(af.lx), FInt(af.ly)) = FInt(af.ly)
     /\ af.ry_new = FInt(af.ly)
     /\ FAbs(FSub(af.rx_new, FInt(af.lx)))
          = FInt(ISqrt(SqDist(left_eye, right_eye)))

Sent(code) == \E i \in 1..Len(responses) : responses[i].code = code

BeforeUpload ==
  {"start", "fetch", "download", "rescale", "af_step2", "af_step3"}

\* C10 (do_POST is ordered and gated): an upload only of bytes align_face
\* returned; the record update only after a successful upload; 200 only
\* after a successful update; after a failure no later step, and the
\* request ends with the one response 400, 404 or 500, never 200.
C10_OrderedAndGated ==
  /\ storage # <<>> => Returned /\ storage = <<aligned_bytes.image>>
  /\ db_aligned_url => storage # <<>> /\ exc.at # "upload"
  /\ Sent(200) => db_aligned_url /\ exc = NoException /\ pc = "done"
  /\ exc.at \in BeforeUpload => storage = <<>> /\ ~db_aligned_url
  /\ exc.at = "upload" => ~db_aligned_url
  /\ (Sent(400) \/ Sent(404) \/ Sent(500)) =>
        /\ ~Sent(200)
        /\ exc.type = "none" => storage = <<>> /\ ~db_aligned_url
  /\ (pc = "done" /\ cli.exit = -1) =>
        /\ Len(responses) = 1
        /\ responses[1].code \in {200, 400, 404, 405, 500}
        /\ exc.type # "none" => responses[1].code = 500

\* C10 witness: the update failed after a successful upload, and the
\* request ended with 500
C10_Witness ==
  /\ pc = "done"
  /\ exc.at = "update"
  /\ storage # <<>>
  /\ ~db_aligned_url
  /\ responses = <<[code |-> 500, message |-> "Alignment failed"]>>

\* step 3 of the api's align_face has computed its rectangles (the copy of
\* line 156 was made, or it raised)
Step3Ran == ApiEntered /\ (Cropped \/ exc.at = "af_step3")

\* the crop window crop_lo .. crop_lo + out_len meets the scaled image
\* 0 .. scaled_len along one axis
WindowOverlaps(crop_lo, scaled_len, out_len) ==
  crop_lo < scaled_len /\ crop_lo + out_len > 0

\* along one axis: source and destination of equal length, the source
\* within the scaled image, the destination within the canvas
SpanConsistent(span, scaled_len, out_len) ==
  /\ span.src_2 - span.src_1 = span.dst_2 - span.dst_1
  /\ 0 <= span.src_1 /\ span.src_1 <= span.src_2 /\ span.src_2 <= scaled_len
  /\ 0 <= span.dst_1 /\ span.dst_1 <= span.dst_2 /\ span.dst_2 <= out_len

\* C11 (crop-copy consistency): whenever step 3 of align_face has run, the
\* source rectangle and the destination rectangle have equal width and
\* height, the source rectangle lies within the scaled image, and
\* 0 <= dst_1 <= dst_2 <= 1080 on both axes; when the crop window does not
\* meet the scaled image the copy is made, is empty, and the canvas stays
\* entirely background.
C11_CropCopyConsistent ==
  Step3Ran =>
    /\ SpanConsistent(af.span_x, af.new_width, OUTPUT_SIZE[1])
    /\ SpanConsistent(af.span_y, af.new_height, OUTPUT_SIZE[2])
    /\ (\/ ~WindowOverlaps(af.crop_left, af.new_width, OUTPUT_SIZE[1])
        \/ ~WindowOverlaps(af.crop_top, af.new_height, OUTPUT_SIZE[2])) =>
          /\ exc.at # "af_step3"
          /\ \A p \in Probes : aligned.px[p] = "white"
=============================================================================
